---- MODULE Spec2Model ----
(***************************************************************************)
(* Model of the excavation controller of minecraft-auto-miner              *)
(* (src/modules/mining.js, class MiningModule).                            *)
(*                                                                         *)
(* One controller instance is modelled.  Every call of the async method    *)
(* mineRectangularArea that passes the busy check creates one mining loop; *)
(* a loop is suspended at each of its awaits, and any other call (pause,   *)
(* resume, stop, setMiningSpeed, a further mineRectangularArea) or any     *)
(* other loop may run while it is suspended.  JavaScript runs the code     *)
(* between two awaits without interruption, so each action below is one    *)
(* such run-to-the-next-await block.                                       *)
(***************************************************************************)
EXTENDS Integers, Sequences, FiniteSets, TLC

\* ------------------------------------------------------------------ bounds
\* The world is the row of cells (0,0,0) .. (MaxX,0,0).
MaxX == 1
\* Number of mineRectangularArea calls that pass the busy check.
MaxStarts == 2
\* Number of changes the environment makes to the world during one run.
MaxWorldChanges == 1
\* The speeds passed to setMiningSpeed run up to 5 * MaxSpeedStep hundredths.
MaxSpeedStep == 201
\* The corners passed to calculateMiningArea have components -1..MaxCorner.
MaxCorner == 1
\* The world of the decomposition on its own is the box 0..MaxQ in x and y,
\* two cells deep in z.
MaxQ == 1
\* bot.entities holds at most MaxEntities entries.
MaxEntities == 2
\* The radius passed to scanAreaForHazards runs over 0..MaxRadius.
MaxRadius == 1
\* Number of goTo calls on the Navigation instance.
MaxGoTo == 2
\* The timeout passed to goTo runs over 0..MaxTimeout clock ticks.
MaxTimeout == 2
\* The last x of the line of cells of the progress runs.
MaxLine == 9

\* ------------------------------------------------------- program constants
\* Speeds are counted in hundredths of a block per second.
InitialSpeed == 100
MinSpeed == 10
MaxSpeed == 1000

\* --------------------------------------------------------------- the world
P3(x, y, z) == [x |-> x, y |-> y, z |-> z]

Coord == [x : 0..MaxX, y : {0}, z : {0}]

\* "none" is bot.blockAt returning null (the chunk is not loaded).
Materials == {"none", "air", "stone", "bedrock", "lava"}

ignoredBlocks == {"bedrock", "obsidian"}

\* Positions of the agent used for the distance ordering.
BotPositions == {[x |-> 1, y |-> 0, z |-> 0]}

\* A JavaScript number: a value in hundredths, or NaN.
Num(v) == [nan |-> FALSE, v |-> v]
NaN == [nan |-> TRUE, v |-> 0]
JsLt(a, b) == ~a.nan /\ ~b.nan /\ a.v < b.v
JsGt(a, b) == ~a.nan /\ ~b.nan /\ a.v > b.v

\* The speeds passed to setMiningSpeed.
SpeedInputs ==
  {Num(5 * k) : k \in (-1)..MaxSpeedStep}
    \cup {Num(9), Num(11), Num(999), Num(1001), NaN}

Loops == 1..MaxStarts

\* The corners passed to calculateMiningArea.
Corners == [x : (-1)..MaxCorner, y : (-1)..MaxCorner, z : (-1)..MaxCorner]

VARIABLES
  isMining,         \* this.isMining
  miningQueue,      \* this.miningQueue
  blocksPerSecond,  \* this.blocksPerSecond
  world,            \* the blocks of the world, as bot.blockAt reports them
  botPos,           \* bot.entity.position
  loops,            \* the mining loops: position, cursor i, cell in hand
  queueReq,         \* the call that built the current miningQueue (0: none)
  ctl,              \* history: the last event that changed isMining
  visited,          \* history: the cells handed to mineBlock, in order
  stoppedReqs,      \* history: requests whose loop was suspended at a stop()
  nWorld,           \* number of world changes made
  speedArg,         \* history: the argument of the last setMiningSpeed call
  reports,          \* history: the progress messages of the loops, in order
  builtQueue,       \* history: the queue each accepted call built
  fnArgs,           \* the arguments of the last function application
  fnResult,         \* the result of the last function application
  entities,         \* bot.entities, in the order of Object.values
  escape,           \* the emergencyEscape call: its position and its result
  pathfindingActive, \* Navigation.pathfindingActive
  goals,            \* Navigation.goals
  controlState,     \* the control states of the bot that are set
  navLoops,         \* the goTo calls: position, arguments, clock, result
  lastOp            \* history: the operation of the last step

safetyVars == <<entities, escape>>
navVars == <<pathfindingActive, goals, controlState, navLoops>>

vars == <<isMining, miningQueue, blocksPerSecond, world, botPos, loops,
          queueReq, ctl, visited, stoppedReqs, nWorld, speedArg, builtQueue,
          fnArgs, fnResult, reports, safetyVars, navVars, lastOp>>

\* ------------------------------------------------------------ decomposition
Min2(a, b) == IF a < b THEN a ELSE b
Max2(a, b) == IF a > b THEN a ELSE b

\* An enumeration that runs from startPos to endPos as they are given.
calculateMiningArea_noMinMax(startPos, endPos) ==
  LET nx == endPos.x - startPos.x + 1
      ny == endPos.y - startPos.y + 1
      nz == endPos.z - startPos.z + 1
      n  == IF nx <= 0 \/ ny <= 0 \/ nz <= 0 THEN 0 ELSE nx * ny * nz
  IN [k \in 1..n |-> [x |-> startPos.x + ((k - 1) \div (ny * nz)),
                      y |-> startPos.y + (((k - 1) \div nz) % ny),
                      z |-> startPos.z + ((k - 1) % nz)]]

\* An enumeration with the loop on z outermost and the loop on x innermost.
calculateMiningArea_zOutermost(startPos, endPos) ==
  LET minX == Min2(startPos.x, endPos.x)
      maxX == Max2(startPos.x, endPos.x)
      minY == Min2(startPos.y, endPos.y)
      maxY == Max2(startPos.y, endPos.y)
      minZ == Min2(startPos.z, endPos.z)
      maxZ == Max2(startPos.z, endPos.z)
      nx == maxX - minX + 1
      ny == maxY - minY + 1
      n  == nx * ny * (maxZ - minZ + 1)
  IN [k \in 1..n |-> [x |-> minX + ((k - 1) % nx),
                      y |-> minY + (((k - 1) \div nx) % ny),
                      z |-> minZ + ((k - 1) \div (nx * ny))]]

\* calculateMiningArea: the closed box, enumerated x, then y, then z.
calculateMiningArea(startPos, endPos) ==
  LET minX == Min2(startPos.x, endPos.x)
      maxX == Max2(startPos.x, endPos.x)
      minY == Min2(startPos.y, endPos.y)
      maxY == Max2(startPos.y, endPos.y)
      minZ == Min2(startPos.z, endPos.z)
      maxZ == Max2(startPos.z, endPos.z)
      ny == maxY - minY + 1
      nz == maxZ - minZ + 1
      n  == (maxX - minX + 1) * ny * nz
  IN [k \in 1..n |-> [x |-> minX + ((k - 1) \div (ny * nz)),
                      y |-> minY + (((k - 1) \div nz) % ny),
                      z |-> minZ + ((k - 1) % nz)]]

\* A test that keeps the blocks of the ignore list.
isMineable_keepsIgnored(name) ==
  /\ name # "none"
  /\ ~(name = "air")

\* The test of filterMineableBlocks on one block.
isMineable(name) ==
  /\ name # "none"
  /\ ~(name = "air" \/ name \in ignoredBlocks)

filterMineableBlocks(positions, w) ==
  SelectSeq(positions, LAMBDA pos : isMineable(w[pos]))

\* The comparator of sortBlocksByDistance orders by the Euclidean distance;
\* the square root is monotone, so the squared distance orders alike.
dist2(a, p) ==
  (a.x - p.x) * (a.x - p.x) + (a.y - p.y) * (a.y - p.y)
    + (a.z - p.z) * (a.z - p.z)

\* An insertion that puts an element before the elements at its distance.
RECURSIVE insertByDistance_unstable(_, _, _)
insertByDistance_unstable(b, sorted, p) ==
  IF sorted = <<>> THEN <<b>>
  ELSE IF dist2(Head(sorted), p) < dist2(b, p)
       THEN <<Head(sorted)>> \o insertByDistance_unstable(b, Tail(sorted), p)
       ELSE <<b>> \o sorted

\* Array.prototype.sort is stable: an element goes after every element that
\* does not compare greater.
RECURSIVE insertByDistance(_, _, _)
insertByDistance(b, sorted, p) ==
  IF sorted = <<>> THEN <<b>>
  ELSE IF dist2(Head(sorted), p) <= dist2(b, p)
       THEN <<Head(sorted)>> \o insertByDistance(b, Tail(sorted), p)
       ELSE <<b>> \o sorted

RECURSIVE sortFrom(_, _, _)
sortFrom(blocks, sorted, p) ==
  IF blocks = <<>> THEN sorted
  ELSE sortFrom(Tail(blocks), insertByDistance(Head(blocks), sorted, p), p)

\* An ordering step that returns the list as it is given.
sortBlocksByDistance_asGiven(blocks, p) == blocks

sortBlocksByDistance(blocks, p) == sortFrom(blocks, <<>>, p)

\* ------------------------------------------------- the synchronous methods
\* A busy check that never rejects.
startBusy_noCheck(mining) == FALSE

\* The busy check of mineRectangularArea.
startBusy(mining) == mining

stop(mining, queue) ==
  IF mining THEN [isMining |-> FALSE, miningQueue |-> <<>>]
  ELSE [isMining |-> mining, miningQueue |-> queue]

\* A pause that drops the queue, as stop does.
pause_dropsQueue(mining, queue) ==
  IF mining THEN [isMining |-> FALSE, miningQueue |-> <<>>]
  ELSE [isMining |-> mining, miningQueue |-> queue]

pause(mining, queue) ==
  IF mining THEN [isMining |-> FALSE, miningQueue |-> queue]
  ELSE [isMining |-> mining, miningQueue |-> queue]

resume(mining, queue) ==
  IF Len(queue) > 0 /\ ~mining THEN [isMining |-> TRUE, miningQueue |-> queue]
  ELSE [isMining |-> mining, miningQueue |-> queue]

\* A range test with <= at the lower end.
speedRejected_openMin(speed) ==
  (~speed.nan /\ speed.v <= MinSpeed) \/ JsGt(speed, Num(MaxSpeed))

\* The range test of setMiningSpeed.
speedRejected(speed) == JsLt(speed, Num(MinSpeed)) \/ JsGt(speed, Num(MaxSpeed))

setMiningSpeed(bps, speed) == IF speedRejected(speed) THEN bps ELSE speed

\* getStatus().queuedBlocks
queuedBlocks == Len(miningQueue)

\* ------------------------------------------------------ the safety checker
\* SafetyChecker of src/unnamed/part_001, as far as its verdict depends on
\* the blocks of the world; hostile stands for hasHostileMobs(safeDistance).
dangerousBlocks == {"lava", "flowing_lava"}

\* bot.world.getBlock returns null outside the loaded world.
isLavaPresent(position, w) ==
  /\ position \in DOMAIN w
  /\ w[position] # "none"
  /\ w[position] \in dangerousBlocks

Abs(n) == IF n < 0 THEN -n ELSE n

\* A scan that leaves out the faces of the cube.
scanAreaForHazards_openCube(position, radius, w) ==
  {c \in DOMAIN w : /\ Abs(c.x - position.x) < radius
                    /\ Abs(c.y - position.y) < radius
                    /\ Abs(c.z - position.z) < radius
                    /\ isLavaPresent(c, w)}

\* The lava list of scanAreaForHazards: the cube of the given radius.
scanAreaForHazards(position, radius, w) ==
  {c \in DOMAIN w : /\ Abs(c.x - position.x) <= radius
                    /\ Abs(c.y - position.y) <= radius
                    /\ Abs(c.z - position.z) <= radius
                    /\ isLavaPresent(c, w)}

ScanRadius == 2

waterBlocks == {"water", "flowing_water"}

isWaterPresent(position, w) ==
  /\ position \in DOMAIN w
  /\ w[position] # "none"
  /\ w[position] \in waterBlocks

hostileTypes ==
  {"zombie", "skeleton", "creeper", "spider", "cave_spider", "enderman",
   "witch", "slime", "magma_cube", "ghast", "blazeghast", "wither_skeleton",
   "stray", "husk", "drowned", "phantom", "pillager", "ravager"}

SafeDistance == 5

\* An entry of the lists of detectNearbyMobs; the distance is kept squared.
mobEntry(e, bp) ==
  [name |-> e.name, position |-> e.position,
   distance2 |-> dist2(e.position, bp)]

\* A threat level that counts only the hostile mobs within safeDistance.
detectNearbyMobs_nearOnly(ents, bp) ==
  LET mobs == SelectSeq(ents, LAMBDA e : e.type = "mob")
      hostile == SelectSeq(mobs, LAMBDA e : e.name \in hostileTypes)
      peaceful == SelectSeq(mobs, LAMBDA e : e.name \notin hostileTypes)
  IN [hostile |-> [k \in 1..Len(hostile) |-> mobEntry(hostile[k], bp)],
      peaceful |-> [k \in 1..Len(peaceful) |-> mobEntry(peaceful[k], bp)],
      threatLevel |->
        IF \E k \in 1..Len(hostile) :
             dist2(hostile[k].position, bp) <= SafeDistance * SafeDistance
        THEN "high" ELSE "low"]

\* detectNearbyMobs: null entries and entities that are not mobs are passed
\* over; a mob goes to the hostile list if its name is a hostile type and to
\* the peaceful list otherwise.
detectNearbyMobs(ents, bp) ==
  LET mobs == SelectSeq(ents, LAMBDA e : e.type = "mob")
      hostile == SelectSeq(mobs, LAMBDA e : e.name \in hostileTypes)
      peaceful == SelectSeq(mobs, LAMBDA e : e.name \notin hostileTypes)
  IN [hostile |-> [k \in 1..Len(hostile) |-> mobEntry(hostile[k], bp)],
      peaceful |-> [k \in 1..Len(peaceful) |-> mobEntry(peaceful[k], bp)],
      threatLevel |-> IF Len(hostile) > 0 THEN "high" ELSE "low"]

\* The water list: a cell goes there only if it holds no lava.
scanWater(position, radius, w) ==
  {c \in DOMAIN w : /\ Abs(c.x - position.x) <= radius
                    /\ Abs(c.y - position.y) <= radius
                    /\ Abs(c.z - position.z) <= radius
                    /\ ~isLavaPresent(c, w)
                    /\ isWaterPresent(c, w)}

\* The report of scanAreaForHazards for a center that is given.
scanReport(position, radius, w, ents, bp) ==
  LET lava == scanAreaForHazards(position, radius, w)
      mobs == detectNearbyMobs(ents, bp).hostile
  IN [lava |-> lava,
      water |-> scanWater(position, radius, w),
      mobs |-> mobs,
      isSafe |-> lava = {} /\ ~(Len(mobs) > 0)]

\* The isSafe field of assessMiningSafety's result.
assessMiningSafety(position, w, hostile) ==
  /\ ~isLavaPresent(position, w)
  /\ ~hostile
  /\ scanAreaForHazards(position, ScanRadius, w) = {}

\* ------------------------------------------------------------ the loop
\* Positions of a loop:
\*   "idle"      the call has not been made
\*   "equip"     inside mineBlock, suspended at await equipBestTool
\*   "dig"       inside mineBlock, suspended at await bot.dig
\*   "awaitMine" mineBlock has returned, the loop's await on it is pending
\*   "delay"     suspended at await this.delay
\*   "done"      the call has returned
NoCell == [x |-> -1, y |-> -1, z |-> -1]
IdleLoop == [pc |-> "idle", i |-> 0, blockPos |-> NoCell]

\* The synchronous part of mineBlock, up to its first await.
\* mineBlock without the test on the ignore list.
mineBlockEntry_noIgnore(pos, w) ==
  IF w[pos] = "none" \/ w[pos] = "air" THEN "awaitMine"
  ELSE "equip"

mineBlockEntry(pos, w) ==
  IF w[pos] = "none" \/ w[pos] = "air" THEN "awaitMine"
  ELSE IF w[pos] \in ignoredBlocks THEN "awaitMine"
  ELSE "equip"

\* A mineBlock that lets the error of bot.dig out: the catch block of
\* mineRectangularArea clears isMining and rethrows, the loop is over.
mineBlockCatch_rethrow(lp, mining) ==
  [loop |-> [lp EXCEPT !.pc = "done", !.blockPos = NoCell],
   isMining |-> FALSE]

\* The catch block of mineBlock: the error is logged, mineBlock returns
\* normally and no field of the instance is touched.
mineBlockCatch(lp, mining) ==
  [loop |-> [lp EXCEPT !.pc = "awaitMine"], isMining |-> mining]

\* A catch block of mineRectangularArea that leaves isMining as the try
\* block set it.
startCatch_keepsFlag(mining) == mining

\* The catch block of mineRectangularArea: isMining = false, then rethrow.
startCatch(mining) == FALSE

\* One evaluation of the loop condition and of the cancellation check with
\* cursor i: TRUE when the body runs.
loopContinues(i, mining, queue) == i < Len(queue) /\ mining

\* The loop at cursor i: either the body up to the first await of mineBlock,
\* or the exit (the completion message and isMining = false).
loopAt(l, i, mining, queue, req) ==
  IF loopContinues(i, mining, queue)
  THEN [loop |-> [pc |-> mineBlockEntry(queue[i + 1], world), i |-> i,
                  blockPos |-> queue[i + 1]],
        isMining |-> mining,
        visit |-> <<[loop |-> l, req |-> req, pos |-> queue[i + 1],
                     safe |-> assessMiningSafety(queue[i + 1], world, FALSE)]>>,
        exit |-> FALSE]
  ELSE [loop |-> [pc |-> "done", i |-> i, blockPos |-> NoCell],
        isMining |-> FALSE,
        visit |-> <<>>,
        exit |-> TRUE]

\* The cadence of the progress messages.
ProgressEvery == 10

\* A progress update after every cell.
progressUpdate_everyCell(l, i, queue) ==
  <<[loop |-> l, mined |-> i + 1, total |-> Len(queue)]>>

\* The progress update of an iteration with cursor i: the message, or
\* nothing.
progressUpdate(l, i, queue) ==
  IF (i + 1) % ProgressEvery = 0
  THEN <<[loop |-> l, mined |-> i + 1, total |-> Len(queue)]>>
  ELSE <<>>

\* ------------------------------------------------------ emergencyEscape
\* Positions of the call: "idle" (not called), "goto" (suspended at await
\* bot.pathfinder.goto), "returned", "threw" (the promise was rejected).
IdleEscape == [pc |-> "idle", result |-> "none", target |-> NoCell]

\* A catch block that lets the error out.
emergencyEscapeCatch_rethrow(e) == [e EXCEPT !.pc = "threw", !.result = "none"]

\* The catch block of emergencyEscape: log, return false.
emergencyEscapeCatch(e) == [e EXCEPT !.pc = "returned", !.result = "false"]

\* ------------------------------------------------------------ Navigation
\* Time is counted in ticks of 50 ms, the length of the loop's sleep.
\* Positions of a goTo call:
\*   "idle"          the call has not been made
\*   "obstacleSleep" in _moveInDirection for an obstacle, at its sleep(100)
\*   "lavaSleep"     in _moveInDirection for _avoidDanger, at its sleep(100)
\*   "jumpSleep"     in _moveTowards, at its sleep(50)
\*   "loopSleep"     at the sleep(50) that ends an iteration
\*   "done"          the call has returned
\* elapsed is Date.now() - startTime, kept up to the timeout; sleep is the
\* time left of the pending timer; acted and stopped are history: the call
\* has issued a setControlState or look call, stop() ran while it was
\* suspended.
NavLoops == 1..MaxGoTo

IdleNav ==
  [pc |-> "idle", target |-> NoCell, tolerance |-> 0, timeout |-> 0,
   elapsed |-> 0, sleep |-> 0, acted |-> FALSE, stopped |-> FALSE,
   result |-> "none"]

\* Tolerances are counted in halves of a block.
DefaultTolerance == 1

NavPositions == {P3(0, 0, 0), P3(1, 1, 0)}

Controls == {"forward", "back", "left", "right", "jump"}

\* The control _moveInDirection sets for each direction of the lists of
\* _calculateAvoidance and _avoidDanger.
Directions == {"right", "left", "forward", "back"}

SleepLoop == 1
SleepJump == 1
SleepMove == 2

\* A test that needs a distance above zero.
withinTolerance_aboveZero(pos, target, tol) ==
  0 < dist2(pos, target) /\ 4 * dist2(pos, target) < tol * tol

\* distance < tolerance
withinTolerance(pos, target, tol) == 4 * dist2(pos, target) < tol * tol

\* A loop condition that lets the loop run when the timeout is reached.
timeLeft_inclusive(lp) == lp.elapsed <= lp.timeout

\* The loop condition: Date.now() - startTime < timeout.
timeLeft(lp) == lp.elapsed < lp.timeout

\* _moveTowards up to its first await, or to its end and on to the sleep
\* that ends the iteration.
moveTowards(lp, ctrl, pos) ==
  IF lp.target.y > pos.y
  THEN [loop |-> [lp EXCEPT !.pc = "jumpSleep", !.sleep = SleepJump,
                            !.acted = TRUE],
        controlState |-> ctrl \cup {"forward", "jump"},
        pathfindingActive |-> pathfindingActive]
  ELSE [loop |-> [lp EXCEPT !.pc = "loopSleep", !.sleep = SleepLoop,
                            !.acted = TRUE],
        controlState |-> ctrl \cup {"forward"},
        pathfindingActive |-> pathfindingActive]

\* The lava check of an iteration: danger is the direction _avoidDanger
\* moves in, "none" if there is no lava around or no direction free of it.
lavaCheck(lp, ctrl, pos, danger) ==
  IF danger # "none"
  THEN [loop |-> [lp EXCEPT !.pc = "lavaSleep", !.sleep = SleepMove,
                            !.acted = TRUE],
        controlState |-> ctrl \cup {danger},
        pathfindingActive |-> pathfindingActive]
  ELSE moveTowards(lp, ctrl, pos)

\* The obstacle check of an iteration: obstacle is the direction
\* _calculateAvoidance returns, "none" if there is no obstacle ahead or no
\* direction to move in.
obstacleCheck(lp, ctrl, pos, obstacle, danger) ==
  IF obstacle # "none"
  THEN [loop |-> [lp EXCEPT !.pc = "obstacleSleep", !.sleep = SleepMove,
                            !.acted = TRUE],
        controlState |-> ctrl \cup {obstacle},
        pathfindingActive |-> pathfindingActive]
  ELSE lavaCheck(lp, ctrl, pos, danger)

\* The loop condition and the body of _navigatePath up to its first await.
navigateFrom(lp, ctrl, pos, obstacle, danger) ==
  IF ~timeLeft(lp)
  THEN [loop |-> [lp EXCEPT !.pc = "done", !.result = "false", !.sleep = 0],
        controlState |-> ctrl,
        pathfindingActive |-> pathfindingActive]
  ELSE IF withinTolerance(pos, lp.target, lp.tolerance)
  THEN [loop |-> [lp EXCEPT !.pc = "done", !.result = "true", !.sleep = 0],
        controlState |-> ctrl,
        pathfindingActive |-> FALSE]
  ELSE obstacleCheck(lp, ctrl, pos, obstacle, danger)

\* The instance after its constructor, with no call made.
InitController ==
  /\ isMining = FALSE
  /\ miningQueue = <<>>
  /\ blocksPerSecond = Num(InitialSpeed)
  /\ loops = [l \in Loops |-> IdleLoop]
  /\ queueReq = 0
  /\ ctl = "Idle"
  /\ visited = <<>>
  /\ stoppedReqs = {}
  /\ nWorld = 0
  /\ speedArg = Num(InitialSpeed)
  /\ builtQueue = [l \in Loops |-> <<>>]
  /\ reports = <<>>
  /\ escape = IdleEscape
  /\ pathfindingActive = FALSE
  /\ goals = <<>>
  /\ controlState = {}
  /\ navLoops = [n \in NavLoops |-> IdleNav]
  /\ lastOp = "init"

Init ==
  /\ InitController
  /\ world = [c \in Coord |-> "stone"]
  /\ botPos \in BotPositions
  /\ entities = <<>>
  /\ fnArgs = <<>>
  /\ fnResult = <<>>

\* ------------------------------------------------- mineRectangularArea
\* The loop the next accepted call creates.
nextLoop == CHOOSE l \in Loops : loops[l].pc = "idle" /\ \A k \in 1..(l - 1) : loops[k].pc # "idle"

\* The call is rejected: isMining is set.
StartBusy ==
  /\ startBusy(isMining)
  /\ lastOp' = "start_busy"
  /\ UNCHANGED <<isMining, miningQueue, blocksPerSecond, world, botPos, loops,
                 queueReq, ctl, visited, stoppedReqs, nWorld, speedArg,
                 builtQueue, fnArgs, fnResult, reports, safetyVars, navVars>>

\* A world query throws during the decomposition, after the try block has
\* set isMining: the catch block clears isMining and rethrows; miningQueue
\* has not been assigned.
StartFails ==
  /\ ~startBusy(isMining)
  /\ \E l \in Loops : loops[l].pc = "idle"
  /\ isMining' = startCatch(TRUE)
  /\ lastOp' = "start_fail"
  /\ UNCHANGED <<miningQueue, blocksPerSecond, world, botPos, loops,
                 queueReq, ctl, visited, stoppedReqs, nWorld, speedArg,
                 builtQueue, fnArgs, fnResult, reports, safetyVars, navVars>>

\* The call is accepted: decomposition, then the loop up to its first await.
StartAccepted(startPos, endPos) ==
  /\ ~startBusy(isMining)
  /\ \E l \in Loops : loops[l].pc = "idle"
  /\ LET l == nextLoop
         q == sortBlocksByDistance(
                filterMineableBlocks(calculateMiningArea(startPos, endPos),
                                     world), botPos)
         r == loopAt(l, 0, TRUE, q, l)
     IN /\ isMining' = r.isMining
        /\ miningQueue' = q
        /\ loops' = [loops EXCEPT ![l] = r.loop]
        /\ queueReq' = l
        /\ ctl' = IF r.exit THEN "Completed" ELSE "Mining"
        /\ visited' = visited \o r.visit
        /\ builtQueue' = [builtQueue EXCEPT ![l] = q]
  /\ lastOp' = "start"
  /\ UNCHANGED <<blocksPerSecond, world, botPos, stoppedReqs, nWorld, speedArg,
                 fnArgs, fnResult, reports, safetyVars, navVars>>

\* ------------------------------------------------------ the loop's steps
\* equipBestTool has settled (it swallows every error); bot.dig is issued.
EquipDone(l) ==
  /\ loops[l].pc = "equip"
  /\ loops' = [loops EXCEPT ![l].pc = "dig"]
  /\ lastOp' = "loop"
  /\ UNCHANGED <<isMining, miningQueue, blocksPerSecond, world, botPos,
                 queueReq, ctl, visited, stoppedReqs, nWorld, speedArg,
                 builtQueue, fnArgs, fnResult, reports, safetyVars, navVars>>

\* bot.dig resolves: the block is gone; mineBlock returns.
DigDone(l) ==
  /\ loops[l].pc = "dig"
  /\ world' = [world EXCEPT ![loops[l].blockPos] = "air"]
  /\ loops' = [loops EXCEPT ![l].pc = "awaitMine"]
  /\ lastOp' = "loop"
  /\ UNCHANGED <<isMining, miningQueue, blocksPerSecond, botPos, queueReq,
                 ctl, visited, stoppedReqs, nWorld, speedArg,
                 builtQueue, fnArgs, fnResult, reports, safetyVars, navVars>>

\* bot.dig rejects: mineBlock's catch logs the error; mineBlock returns.
DigFails(l) ==
  /\ loops[l].pc = "dig"
  /\ LET r == mineBlockCatch(loops[l], isMining)
     IN /\ loops' = [loops EXCEPT ![l] = r.loop]
        /\ isMining' = r.isMining
  /\ lastOp' = "dig_fail"
  /\ UNCHANGED <<miningQueue, blocksPerSecond, world, botPos,
                 queueReq, ctl, visited, stoppedReqs, nWorld, speedArg,
                 builtQueue, fnArgs, fnResult, reports, safetyVars, navVars>>

\* The await on mineBlock resumes: progress message, then the pacing delay.
MineReturned(l) ==
  /\ loops[l].pc = "awaitMine"
  /\ loops' = [loops EXCEPT ![l].pc = "delay"]
  /\ reports' = reports \o progressUpdate(l, loops[l].i, miningQueue)
  /\ lastOp' = "loop"
  /\ UNCHANGED <<isMining, miningQueue, blocksPerSecond, world, botPos,
                 queueReq, ctl, visited, stoppedReqs, nWorld, speedArg,
                 builtQueue, fnArgs, fnResult, safetyVars, navVars>>

\* The pacing delay ends: i++, the loop condition and the cancellation check
\* on the instance's current fields, then the next body or the exit.
DelayDone(l) ==
  /\ loops[l].pc = "delay"
  /\ LET r == loopAt(l, loops[l].i + 1, isMining, miningQueue, queueReq)
     IN /\ isMining' = r.isMining
        /\ loops' = [loops EXCEPT ![l] = r.loop]
        /\ ctl' = IF r.exit /\ isMining THEN "Completed" ELSE ctl
        /\ visited' = visited \o r.visit
  /\ lastOp' = "loop"
  /\ UNCHANGED <<miningQueue, blocksPerSecond, world, botPos, queueReq,
                 stoppedReqs, nWorld, speedArg,
                 builtQueue, fnArgs, fnResult, reports, safetyVars, navVars>>

\* ------------------------------------------------------- the other calls
\* A loop of the request that owns the queue is suspended at an await.
loopSuspended(l) == l \in Loops /\ loops[l].pc \in {"equip", "dig", "awaitMine", "delay"}

Stop ==
  /\ LET r == stop(isMining, miningQueue)
     IN /\ isMining' = r.isMining
        /\ miningQueue' = r.miningQueue
  /\ ctl' = IF isMining THEN "Cancelled" ELSE ctl
  /\ stoppedReqs' = IF loopSuspended(queueReq) THEN stoppedReqs \cup {queueReq}
                    ELSE stoppedReqs
  /\ lastOp' = "stop"
  /\ UNCHANGED <<blocksPerSecond, world, botPos, loops, queueReq, visited,
                 nWorld, speedArg,
                 builtQueue, fnArgs, fnResult, reports, safetyVars, navVars>>

Pause ==
  /\ LET r == pause(isMining, miningQueue)
     IN /\ isMining' = r.isMining
        /\ miningQueue' = r.miningQueue
  /\ ctl' = IF isMining THEN "Paused" ELSE ctl
  /\ lastOp' = "pause"
  /\ UNCHANGED <<blocksPerSecond, world, botPos, loops, queueReq, visited,
                 stoppedReqs, nWorld, speedArg,
                 builtQueue, fnArgs, fnResult, reports, safetyVars, navVars>>

Resume ==
  /\ LET r == resume(isMining, miningQueue)
     IN /\ isMining' = r.isMining
        /\ miningQueue' = r.miningQueue
        /\ ctl' = IF r.isMining # isMining THEN "Mining" ELSE ctl
  /\ lastOp' = "resume"
  /\ UNCHANGED <<blocksPerSecond, world, botPos, loops, queueReq, visited,
                 stoppedReqs, nWorld, speedArg,
                 builtQueue, fnArgs, fnResult, reports, safetyVars, navVars>>

SetMiningSpeed(speed) ==
  /\ blocksPerSecond' = setMiningSpeed(blocksPerSecond, speed)
  /\ speedArg' = speed
  /\ lastOp' = IF speedRejected(speed) THEN "speed_rejected" ELSE "speed"
  /\ UNCHANGED <<isMining, miningQueue, world, botPos, loops, queueReq, ctl,
                 visited, stoppedReqs, nWorld,
                 builtQueue, fnArgs, fnResult, reports, safetyVars, navVars>>

\* The world changes under the controller (another player, falling blocks,
\* a chunk loading or unloading).
WorldChange(c, m) ==
  /\ nWorld < MaxWorldChanges
  /\ world[c] # m
  /\ world' = [world EXCEPT ![c] = m]
  /\ nWorld' = nWorld + 1
  /\ lastOp' = "world"
  /\ UNCHANGED <<isMining, miningQueue, blocksPerSecond, botPos, loops,
                 queueReq, ctl, visited, stoppedReqs, speedArg,
                 builtQueue, fnArgs, fnResult, reports, safetyVars, navVars>>

LoopStep(l) ==
  \/ EquipDone(l)
  \/ DigDone(l)
  \/ DigFails(l)
  \/ MineReturned(l)
  \/ DelayDone(l)

Next ==
  \/ StartBusy
  \/ StartFails
  \/ \E s, e \in Coord : StartAccepted(s, e)
  \/ \E l \in Loops : LoopStep(l)
  \/ Stop
  \/ Pause
  \/ Resume
  \/ \E c \in Coord, m \in Materials : WorldChange(c, m)

Spec == Init /\ [][Next]_vars

\* ------------------------------------------------ the tool of mineBlock
\* How equipBestTool goes for a block:
\*   "no_tool_type"  getToolForBlock returns null
\*   "not_held"      no item of the inventory has the tool's name
\*   "equipped"      bot.equip resolves
\*   "equip_failed"  bot.equip rejects, or a read of the inventory throws
EquipOutcomes == {"no_tool_type", "not_held", "equipped", "equip_failed"}

\* An equipBestTool whose catch block lets the error out.
equipBestTool_rethrow(outcome) ==
  IF outcome = "equip_failed" THEN "threw" ELSE "returned"

\* equipBestTool: every path returns normally, the catch block is empty.
equipBestTool(outcome) == "returned"

\* mineBlock after its await on equipBestTool: bot.dig is issued, or the
\* catch block of mineBlock is run and mineBlock returns.
afterEquip(settled) == IF settled = "returned" THEN "dig" ELSE "awaitMine"

\* equipBestTool settles with the given outcome.
EquipSettles(l, outcome) ==
  /\ loops[l].pc = "equip"
  /\ loops' = [loops EXCEPT ![l].pc = afterEquip(equipBestTool(outcome))]
  /\ lastOp' = outcome
  /\ UNCHANGED <<isMining, miningQueue, blocksPerSecond, world, botPos,
                 queueReq, ctl, visited, stoppedReqs, nWorld, speedArg,
                 builtQueue, fnArgs, fnResult, reports, safetyVars, navVars>>

ToolStep(l) ==
  \/ \E outcome \in EquipOutcomes : EquipSettles(l, outcome)
  \/ DigDone(l)
  \/ DigFails(l)
  \/ MineReturned(l)
  \/ DelayDone(l)

NextTool ==
  \/ \E s, e \in Coord : StartAccepted(s, e)
  \/ \E l \in Loops : ToolStep(l)
  \/ Stop
  \/ \E c \in Coord, m \in Materials : WorldChange(c, m)

SpecTool == Init /\ [][NextTool]_vars

\* ------------------------------------------------ progress on a long line
\* A line of MaxLine + 1 cells along x, all stone, the agent at its first
\* cell: the queue of the whole line is the line in the order of x.
LineCoord == {P3(x, 0, 0) : x \in 0..MaxLine}

InitProgress ==
  /\ InitController
  /\ world = [c \in LineCoord |-> "stone"]
  /\ botPos = P3(0, 0, 0)
  /\ entities = <<>>
  /\ fnArgs = <<>>
  /\ fnResult = <<>>

\* mineRectangularArea over the whole line.
StartLine == StartAccepted(P3(0, 0, 0), P3(MaxLine, 0, 0))

\* The awaits of loop l settle: in these runs every bot.dig resolves, and
\* the promises and timers of an older call settle before those of a
\* younger one.
LineStep(l) ==
  /\ \A k \in Loops : k < l => ~loopSuspended(k)
  /\ (EquipDone(l) \/ DigDone(l) \/ MineReturned(l) \/ DelayDone(l))

NextProgress ==
  \/ StartLine
  \/ \E l \in Loops : LineStep(l)
  \/ Stop
  \/ Pause
  \/ Resume

SpecProgress == InitProgress /\ [][NextProgress]_vars

\* ------------------------------------------- the decomposition on its own
\* calculateMiningArea reads its arguments only: it is applied to every pair
\* of corners.
InitArea ==
  /\ InitController
  /\ world = [c \in Coord |-> "stone"]
  /\ botPos \in BotPositions
  /\ entities = <<>>
  /\ fnArgs \in [startPos : Corners, endPos : Corners]
  /\ fnResult = <<>>

CalculateMiningArea ==
  /\ fnResult' = calculateMiningArea(fnArgs.startPos, fnArgs.endPos)
  /\ lastOp' = "area"
  /\ UNCHANGED <<isMining, miningQueue, blocksPerSecond, world, botPos, loops,
                 queueReq, ctl, visited, stoppedReqs, nWorld, speedArg,
                 builtQueue, fnArgs, reports, safetyVars, navVars>>

NextArea == CalculateMiningArea

SpecArea == InitArea /\ [][NextArea]_vars

\* Lines 187-195 of mineRectangularArea: the three steps of the decomposition
\* read the corners, the world and the agent's position.  The world is a box
\* of stone or of bedrock with at most one cell of another material.
QCoord == [x : 0..MaxQ, y : 0..MaxQ, z : 0..1]

QWorlds ==
  {[c \in QCoord |-> IF c = odd THEN m ELSE base] :
     odd \in QCoord, m \in Materials, base \in {"stone", "bedrock"}}

QBotPositions == {[x |-> 0, y |-> 0, z |-> 0], [x |-> 1, y |-> 0, z |-> 1]}

InitQueue ==
  /\ InitController
  /\ world \in QWorlds
  /\ botPos \in QBotPositions
  /\ entities = <<>>
  /\ fnArgs \in [startPos : QCoord, endPos : QCoord, botPos : {NoCell}]
  /\ fnResult = <<>>

Decompose ==
  /\ fnArgs' = [fnArgs EXCEPT !.botPos = botPos]
  /\ fnResult' = sortBlocksByDistance(
                    filterMineableBlocks(
                      calculateMiningArea(fnArgs.startPos, fnArgs.endPos),
                      world), botPos)
  /\ lastOp' = "queue"
  /\ UNCHANGED <<isMining, miningQueue, blocksPerSecond, world, botPos, loops,
                 queueReq, ctl, visited, stoppedReqs, nWorld, speedArg,
                 builtQueue, reports, safetyVars, navVars>>

\* The agent moves (bot.entity.position is updated by the physics).
BotMoves(p) ==
  /\ botPos # p
  /\ botPos' = p
  /\ lastOp' = "move"
  /\ UNCHANGED <<isMining, miningQueue, blocksPerSecond, world, loops,
                 queueReq, ctl, visited, stoppedReqs, nWorld, speedArg,
                 builtQueue, fnArgs, fnResult, reports, safetyVars, navVars>>

NextQueue ==
  \/ Decompose
  \/ \E p \in QBotPositions : BotMoves(p)

SpecQueue == InitQueue /\ [][NextQueue]_vars

\* ------------------------------------------------ the safety checker alone
\* The materials of the worlds that are scanned.
SMaterials == {"none", "air", "stone", "lava", "flowing_lava", "water"}

\* A box of stone with at most one cell of another material.
SWorlds ==
  {[c \in QCoord |-> IF c = odd THEN m ELSE "stone"] :
     odd \in QCoord, m \in SMaterials}

\* The entities the bot knows: mobs of a hostile and of a peaceful type, a
\* player, and a null entry, next to the agent or far from it.
EntityPositions == {P3(1, 0, 0), P3(9, 0, 0)}

EntitySet ==
  {[type |-> k[1], name |-> k[2], position |-> q] :
     k \in {<<"mob", "zombie">>, <<"mob", "cow">>, <<"player", "player">>},
     q \in EntityPositions}
    \cup {[type |-> "null", name |-> "", position |-> P3(0, 0, 0)]}

SeqsUpTo(S, n) == UNION {[1..k -> S] : k \in 0..n}

\* scanAreaForHazards reads its arguments, the world and the entities.
InitScan ==
  /\ InitController
  /\ world \in SWorlds
  /\ botPos = P3(0, 0, 0)
  /\ entities \in {<<>>} \cup {<<e>> : e \in {f \in EntitySet : f.type = "mob"}}
  /\ fnArgs \in [position : QCoord, radius : 0..MaxRadius]
  /\ fnResult = <<>>

ScanAreaForHazards ==
  /\ fnResult' = scanReport(fnArgs.position, fnArgs.radius, world, entities,
                            botPos)
  /\ lastOp' = "scan"
  /\ UNCHANGED <<isMining, miningQueue, blocksPerSecond, world, botPos, loops,
                 queueReq, ctl, visited, stoppedReqs, nWorld, speedArg,
                 builtQueue, fnArgs, reports, safetyVars, navVars>>

NextScan == ScanAreaForHazards

SpecScan == InitScan /\ [][NextScan]_vars

\* detectNearbyMobs reads the entities and the agent's position;
\* emergencyEscape reads the agent's position and asks the pathfinder.
InitSafety ==
  /\ InitController
  /\ world = [c \in Coord |-> "stone"]
  /\ botPos = P3(0, 0, 0)
  /\ entities \in SeqsUpTo(EntitySet, MaxEntities)
  /\ fnArgs = <<>>
  /\ fnResult = <<>>

DetectNearbyMobs ==
  /\ fnResult' = detectNearbyMobs(entities, botPos)
  /\ lastOp' = "mobs"
  /\ UNCHANGED <<isMining, miningQueue, blocksPerSecond, world, botPos, loops,
                 queueReq, ctl, visited, stoppedReqs, nWorld, speedArg,
                 builtQueue, fnArgs, reports, safetyVars, navVars>>

\* emergencyEscape is called: the agent's position is read and the
\* pathfinder is asked inside the try block.  readable: bot.player.entity
\* is there; startable: bot.pathfinder.goto returns a promise.
EscapeStart(readable, startable) ==
  /\ escape.pc # "goto"
  /\ LET target == IF readable
                   THEN P3(botPos.x + 5, botPos.y + 2, botPos.z + 5)
                   ELSE NoCell
         called == [pc |-> "goto", result |-> "none", target |-> target]
     IN IF readable /\ startable
        THEN escape' = called /\ lastOp' = "escape_goto"
        ELSE escape' = emergencyEscapeCatch(called) /\ lastOp' = "escape_failed"
  /\ UNCHANGED <<isMining, miningQueue, blocksPerSecond, world, botPos, loops,
                 queueReq, ctl, visited, stoppedReqs, nWorld, speedArg,
                 builtQueue, fnArgs, fnResult, reports, entities, navVars>>

\* The movement completes: return true.
EscapeResolves ==
  /\ escape.pc = "goto"
  /\ escape' = [escape EXCEPT !.pc = "returned", !.result = "true"]
  /\ lastOp' = "escape_resolved"
  /\ UNCHANGED <<isMining, miningQueue, blocksPerSecond, world, botPos, loops,
                 queueReq, ctl, visited, stoppedReqs, nWorld, speedArg,
                 builtQueue, fnArgs, fnResult, reports, entities, navVars>>

\* The movement fails: the catch block.
EscapeRejects ==
  /\ escape.pc = "goto"
  /\ escape' = emergencyEscapeCatch(escape)
  /\ lastOp' = "escape_rejected"
  /\ UNCHANGED <<isMining, miningQueue, blocksPerSecond, world, botPos, loops,
                 queueReq, ctl, visited, stoppedReqs, nWorld, speedArg,
                 builtQueue, fnArgs, fnResult, reports, entities, navVars>>

NextSafety ==
  \/ DetectNearbyMobs
  \/ \E readable, startable \in BOOLEAN : EscapeStart(readable, startable)
  \/ EscapeResolves
  \/ EscapeRejects

SpecSafety == InitSafety /\ [][NextSafety]_vars

\* ------------------------------------------------------ Navigation alone
InitNav ==
  /\ InitController
  /\ world = [c \in Coord |-> "stone"]
  /\ botPos \in NavPositions
  /\ entities = <<>>
  /\ fnArgs = <<>>
  /\ fnResult = <<>>

navSuspended(n) ==
  navLoops[n].pc \in {"obstacleSleep", "lavaSleep", "jumpSleep", "loopSleep"}

\* The goTo call the next call creates.
nextNav ==
  CHOOSE n \in NavLoops :
    navLoops[n].pc = "idle" /\ \A k \in 1..(n - 1) : navLoops[k].pc # "idle"

\* goTo(target, {timeout}) with the other options at their defaults: the
\* goal is pushed and _navigatePath runs up to its first await.
GoTo(target, timeout, obstacle, danger) ==
  /\ \E n \in NavLoops : navLoops[n].pc = "idle"
  /\ LET n == nextNav
         lp == [IdleNav EXCEPT !.target = target, !.timeout = timeout,
                               !.tolerance = DefaultTolerance]
         r == navigateFrom(lp, controlState, botPos, obstacle, danger)
     IN /\ goals' = Append(goals, [position |-> target,
                                   tolerance |-> DefaultTolerance])
        /\ navLoops' = [navLoops EXCEPT ![n] = r.loop]
        /\ controlState' = r.controlState
        /\ pathfindingActive' = r.pathfindingActive
  /\ lastOp' = "nav"
  /\ UNCHANGED <<isMining, miningQueue, blocksPerSecond, world, botPos, loops,
                 queueReq, ctl, visited, stoppedReqs, nWorld, speedArg,
                 builtQueue, fnArgs, fnResult, reports, safetyVars>>

\* The timer of call n has fired: the call goes on to its next await or to
\* its return.
NavWake(n, obstacle, danger) ==
  /\ navSuspended(n)
  /\ navLoops[n].sleep = 0
  /\ LET lp == navLoops[n]
         cleared == controlState \ {"right", "left", "forward", "back"}
         r == CASE lp.pc = "obstacleSleep" ->
                     lavaCheck(lp, cleared, botPos, danger)
                [] lp.pc = "lavaSleep" ->
                     moveTowards(lp, cleared, botPos)
                [] lp.pc = "jumpSleep" ->
                     [loop |-> [lp EXCEPT !.pc = "loopSleep",
                                          !.sleep = SleepLoop],
                      controlState |-> controlState \ {"jump"},
                      pathfindingActive |-> pathfindingActive]
                [] lp.pc = "loopSleep" ->
                     navigateFrom(lp, controlState, botPos, obstacle, danger)
     IN /\ navLoops' = [navLoops EXCEPT ![n] = r.loop]
        /\ controlState' = r.controlState
        /\ pathfindingActive' = r.pathfindingActive
  /\ lastOp' = "nav"
  /\ UNCHANGED <<isMining, miningQueue, blocksPerSecond, world, botPos, loops,
                 queueReq, ctl, visited, stoppedReqs, nWorld, speedArg,
                 builtQueue, fnArgs, fnResult, reports, safetyVars, goals>>

\* One tick of the clock passes for every call that is under way.
Tick ==
  /\ \E n \in NavLoops :
       navSuspended(n) /\ (navLoops[n].sleep > 0 \/ timeLeft(navLoops[n]))
  /\ navLoops' =
       [n \in NavLoops |->
          IF navSuspended(n)
          THEN [navLoops[n] EXCEPT
                  !.sleep = Max2(navLoops[n].sleep - 1, 0),
                  !.elapsed = Min2(navLoops[n].elapsed + 1, navLoops[n].timeout)]
          ELSE navLoops[n]]
  /\ lastOp' = "nav"
  /\ UNCHANGED <<isMining, miningQueue, blocksPerSecond, world, botPos, loops,
                 queueReq, ctl, visited, stoppedReqs, nWorld, speedArg,
                 builtQueue, fnArgs, fnResult, reports, safetyVars, pathfindingActive,
                 goals, controlState>>

\* Navigation.stop()
NavStop ==
  /\ pathfindingActive' = FALSE
  /\ goals' = <<>>
  /\ controlState' = controlState \ Controls
  /\ navLoops' = [n \in NavLoops |->
                    IF navSuspended(n)
                    THEN [navLoops[n] EXCEPT !.stopped = TRUE]
                    ELSE navLoops[n]]
  /\ lastOp' = "nav"
  /\ UNCHANGED <<isMining, miningQueue, blocksPerSecond, world, botPos, loops,
                 queueReq, ctl, visited, stoppedReqs, nWorld, speedArg,
                 builtQueue, fnArgs, fnResult, reports, safetyVars>>

\* The agent is moved, by its own controls or by the world.
NavBotMoves(p) ==
  /\ botPos # p
  /\ botPos' = p
  /\ lastOp' = "nav"
  /\ UNCHANGED <<isMining, miningQueue, blocksPerSecond, world, loops,
                 queueReq, ctl, visited, stoppedReqs, nWorld, speedArg,
                 builtQueue, fnArgs, fnResult, reports, safetyVars, navVars>>

NavStep(n) ==
  \E obstacle, danger \in Directions \cup {"none"} : NavWake(n, obstacle, danger)

NextNav ==
  \/ \E target \in NavPositions, timeout \in 0..MaxTimeout,
        obstacle, danger \in Directions \cup {"none"} :
         GoTo(target, timeout, obstacle, danger)
  \/ \E n \in NavLoops : NavStep(n)
  \/ Tick
  \/ NavStop
  \/ \E p \in NavPositions : NavBotMoves(p)

SpecNav == InitNav /\ [][NextNav]_vars

\* Timers fire and time passes.
FairNav == SpecNav /\ WF_vars(Tick) /\ \A n \in NavLoops : WF_vars(NavStep(n))

\* ------------------------------------------------- Obstacle avoidance alone
\* What bot.blockAt gives for a cell: "none" for a cell that is not loaded
\* (null), else the name of the block; "tall_grass" is a block with an empty
\* bounding box, the others named here have the bounding box 'block' but
\* for "air".
NavBlocks == {"none", "air", "stone", "tall_grass"}

\* blockName.includes(liquid) for one of 'water', 'lava', 'air'
namesLiquid(b) == b \in {"air", "water", "lava"}

boundingBox(b) == IF b \in {"air", "tall_grass", "water", "lava"}
                  THEN "empty" ELSE "block"

\* _isSolidBlock(block)
isSolidBlock(b) ==
  /\ b # "none"
  /\ ~namesLiquid(b)
  /\ boundingBox(b) = "block"

\* _canStand(pos), col being the cells at the horizontal offset pos of the
\* agent: below its feet, at its feet, at its head.
canStand(col) ==
  /\ col.feet # "none"
  /\ col.below # "none"
  /\ namesLiquid(col.feet)
  /\ isSolidBlock(col.below)

\* _canMove(pos) for the offset whose cells are col
canMove(col) ==
  /\ \A b \in {col.feet, col.head} : ~(b # "none" /\ isSolidBlock(b))
  /\ canStand(col)

\* The directions list of _calculateAvoidance, in its order.
avoidanceOrder == <<"right", "left", "forward", "back">>

\* _calculateAvoidance(): the first direction whose offset can be moved to,
\* "none" for null. cols gives the cells at each of the four offsets.
calculateAvoidance(cols) ==
  IF \E i \in 1..Len(avoidanceOrder) : canMove(cols[avoidanceOrder[i]])
  THEN LET i == CHOOSE j \in 1..Len(avoidanceOrder) :
                  /\ canMove(cols[avoidanceOrder[j]])
                  /\ \A k \in 1..(j - 1) : ~canMove(cols[avoidanceOrder[k]])
       IN avoidanceOrder[i]
  ELSE "none"

\* The columns the four offsets are drawn from: free, head blocked, feet
\* blocked, no floor, grass at the feet, grass at the head, feet not loaded.
AvoidColumns ==
  { [below |-> "stone", feet |-> "air",        head |-> "air"],
    [below |-> "stone", feet |-> "air",        head |-> "stone"],
    [below |-> "stone", feet |-> "stone",      head |-> "air"],
    [below |-> "air",   feet |-> "air",        head |-> "air"],
    [below |-> "stone", feet |-> "tall_grass", head |-> "air"],
    [below |-> "stone", feet |-> "air",        head |-> "tall_grass"],
    [below |-> "stone", feet |-> "none",       head |-> "air"] }

\* fnArgs holds what the agent has around it: whether _isObstacleAhead()
\* is true, and the cells at the four offsets.
InitAvoid ==
  /\ InitController
  /\ world = [c \in Coord |-> "stone"]
  /\ botPos = P3(0, 0, 0)
  /\ entities = <<>>
  /\ fnArgs \in [ahead : BOOLEAN, cols : [Directions -> AvoidColumns]]
  /\ fnResult = <<>>

\* The avoidance direction of an iteration of _navigatePath, "none" when
\* no obstacle is ahead or no direction is returned.
avoidanceDir ==
  IF fnArgs.ahead THEN calculateAvoidance(fnArgs.cols) ELSE "none"

\* The first goTo(target, {timeout}) of the instance, made in these
\* surroundings with no lava around.
AvoidGoTo(target, timeout) ==
  /\ \A n \in NavLoops : navLoops[n].pc = "idle"
  /\ GoTo(target, timeout, avoidanceDir, "none")

\* A timer fires in these surroundings.
AvoidWake(n) == NavWake(n, avoidanceDir, "none")

NextAvoid ==
  \/ \E target \in NavPositions, timeout \in 1..MaxTimeout :
       AvoidGoTo(target, timeout)
  \/ \E n \in NavLoops : AvoidWake(n)
  \/ Tick

SpecAvoid == InitAvoid /\ [][NextAvoid]_vars

\* setMiningSpeed reads and writes blocksPerSecond only, and the loop reads
\* blocksPerSecond only for the length of its delay, which is not measured
\* here: the setter is run on its own.
NextSpeed == \E speed \in SpeedInputs : SetMiningSpeed(speed)

SpecSpeed == Init /\ [][NextSpeed]_vars

\* The event loop runs every pending continuation, timers fire and the world
\* collaborator settles every request: each loop step that is enabled is
\* eventually taken.
FairSpec == Spec /\ \A l \in Loops : WF_vars(LoopStep(l))

\* ================================================================ claims
StartOps == {"start", "start_busy", "start_fail"}

\* Everything but lastOp.
state == <<isMining, miningQueue, blocksPerSecond, world, botPos, loops,
           queueReq, ctl, visited, stoppedReqs, nWorld, speedArg, builtQueue,
           fnArgs, fnResult, reports, safetyVars, navVars>>

\* The loop is inside mineBlock: the per-cell procedure is at work.
inMineBlock(l) == loops[l].pc \in {"equip", "dig"}

\* The cells handed to mineBlock so far, in order.
visitedCells == [k \in 1..Len(visited) |-> visited[k].pos]

\* A step that hands a cell to mineBlock.
Visits == Len(visited') > Len(visited)

\* C1: at most one mining loop of the instance processes cells: every cell is
\* visited by the loop of the request that owns the queue (a loop that was
\* stopped or paused visits nothing once a later request is accepted), and two
\* loops are never inside the per-cell procedure at the same time.
C1_OneLoopProcesses ==
  /\ \A k \in 1..Len(visited) : visited[k].loop = visited[k].req
  /\ \A l1, l2 \in Loops : inMineBlock(l1) /\ inMineBlock(l2) => l1 = l2

\* C2: in a run of one request with pause() and resume() calls and no
\* effective stop(), once the loop has returned and the controller is not
\* Paused, every queued cell has been visited exactly once, in order.
C2_PauseResumeVisitsAll ==
  ( /\ loops[1].pc = "done"
    /\ \A l \in Loops \ {1} : loops[l].pc = "idle"
    /\ miningQueue # <<>>
    /\ ctl # "Paused" )
  => visitedCells = miningQueue

\* C3: right after stop(), whatever the state it was called in, the queue is
\* empty and the controller is not Mining.
C3_StopEmptiesQueue ==
  lastOp = "stop" => (queuedBlocks = 0 /\ ~isMining)

\* C4: the controller never reports Mining forever: whenever isMining is set,
\* it is eventually cleared (by the terminal report of a loop, or by a call).
C4_MiningEnds == isMining ~> ~isMining

\* C5: a mineRectangularArea call made while isMining is set is rejected and
\* changes nothing: no decomposition, no visit, no world action, the queue,
\* the loops' cursors and the flag stay as they are.
C5_BusyRejected ==
  [][(isMining /\ lastOp' \in StartOps)
       => (lastOp' = "start_busy" /\ UNCHANGED state)]_vars

C5_Witness ==
  /\ lastOp = "start_busy"
  /\ isMining
  /\ \E l \in Loops : loops[l].pc = "delay" /\ loops[l].i + 1 < Len(miningQueue)

\* C6: a mineRectangularArea call made while Paused is rejected and leaves the
\* paused queue and the cursors alone; a call is accepted only from Idle,
\* Completed or Cancelled.
C6_PausedRejected ==
  [][ /\ (ctl = "Paused" /\ lastOp' \in StartOps)
          => (lastOp' = "start_busy" /\ UNCHANGED <<miningQueue, loops>>)
      /\ (lastOp' = "start" => ctl \in {"Idle", "Completed", "Cancelled"})
    ]_vars

\* C7: resume() changes isMining and the queue only when the controller is
\* Paused with a non-empty queue.
C7_ResumeOnlyFromPaused ==
  [][(lastOp' = "resume" /\ ~(ctl = "Paused" /\ miningQueue # <<>>))
       => UNCHANGED <<isMining, miningQueue>>]_vars

\* C8: pause() leaves the controller not Mining, never changes the queue,
\* changes nothing at all when isMining is clear, and a second pause() after
\* it changes nothing.
C8_PauseIdempotent ==
  [][lastOp' = "pause"
       => /\ miningQueue' = miningQueue
          /\ ~isMining'
          /\ (~isMining => UNCHANGED state)
          /\ pause(isMining', miningQueue')
               = [isMining |-> isMining', miningQueue |-> miningQueue']
          /\ UNCHANGED <<loops, visited, world, blocksPerSecond>>]_vars

C8_Witness ==
  /\ lastOp = "pause"
  /\ ctl = "Paused"
  /\ miningQueue # <<>>
  /\ \E l \in Loops : loopSuspended(l)

\* C9: a second stop() after a stop() changes nothing, and once stop() has
\* been called while the loop of a request was suspended, no further cell of
\* that request is visited.
C9_StopIsFinal ==
  [][ /\ lastOp' = "stop"
          => stop(isMining', miningQueue')
               = [isMining |-> isMining', miningQueue |-> miningQueue']
      /\ Visits => visited'[Len(visited')].req \notin stoppedReqs
    ]_vars

\* The interval (0.1, 10]: open at 0.1, closed at 10.
inOpenClosed(speed) == ~speed.nan /\ speed.v > MinSpeed /\ speed.v <= MaxSpeed

\* The interval [0.1, 10].
inClosed(speed) == ~speed.nan /\ speed.v >= MinSpeed /\ speed.v <= MaxSpeed

SpeedOps == {"speed", "speed_rejected"}

\* C10 as stated: every rate outside (0.1, 10] is rejected and leaves the
\* throughput as it was; every rate inside is stored as given.
C10_OpenAtMin ==
  [][lastOp' \in SpeedOps
       => IF inOpenClosed(speedArg') THEN blocksPerSecond' = speedArg'
          ELSE blocksPerSecond' = blocksPerSecond]_vars

\* C10 as amended: every number below 0.1 or above 10 is rejected and leaves
\* the throughput as it was; every number of the closed interval [0.1, 10],
\* 0.1 included, is stored as given, and so is NaN, which neither comparison
\* rejects.
C10_ClosedInterval ==
  [][lastOp' \in SpeedOps
       => IF inClosed(speedArg') \/ speedArg'.nan
          THEN blocksPerSecond' = speedArg'
          ELSE blocksPerSecond' = blocksPerSecond]_vars

C10_Witness ==
  /\ lastOp = "speed_rejected"
  /\ blocksPerSecond = Num(MinSpeed)
  /\ ~inClosed(speedArg)

\* The cells loop l has handed to mineBlock, in order.
cellsVisitedBy(l) ==
  LET vs == SelectSeq(visited, LAMBDA v : v.loop = l)
  IN [k \in 1..Len(vs) |-> vs[k].pos]

IsPrefix(s, t) == Len(s) <= Len(t) /\ \A k \in 1..Len(s) : s[k] = t[k]

\* C11: the cells a loop visits are, in order, a prefix of the queue that
\* was built at the decomposition of the loop's own call: no reordering, no
\* repetition, no skipping ahead.
C11_VisitsArePrefix ==
  \A l \in Loops : IsPrefix(cellsVisitedBy(l), builtQueue[l])

\* The loop whose step hands a cell to mineBlock, and that cell.
visitingLoop == visited'[Len(visited')].loop
visitedCell == visited'[Len(visited')].pos

\* C12: when a cell is visited, its material is resolved again: if it is
\* absent, air or ignored, mineBlock returns at once with no world action and
\* without ending the loop or clearing isMining; a loop gets to bot.dig only
\* through the tool selection, which it enters only with a mineable cell.
C12_NoDigOfSkippedCell ==
  [][ /\ Visits =>
           /\ loops'[visitingLoop].blockPos = visitedCell
           /\ IF isMineable(world[visitedCell])
              THEN loops'[visitingLoop].pc = "equip"
              ELSE /\ loops'[visitingLoop].pc = "awaitMine"
                   /\ isMining'
                   /\ world' = world
      /\ \A l \in Loops :
           /\ (loops'[l].pc = "equip" /\ loops[l] # loops'[l]) => Visits
           /\ (loops'[l].pc = "dig" /\ loops[l] # loops'[l])
                => (loops[l].pc = "equip" /\ loops'[l].blockPos = loops[l].blockPos)
    ]_vars

\* The only loop at work has just visited its second cell, which was
\* mineable at decomposition and is bedrock now, and skipped it.
C12_Witness ==
  /\ lastOp = "loop"
  /\ loops[1].pc = "awaitMine"
  /\ loops[1].i = 1
  /\ loops[2].pc = "idle"
  /\ loops[1].blockPos = builtQueue[1][2]
  /\ world[loops[1].blockPos] = "bedrock"

\* The last visit loop l has made.
lastVisitOf(l) ==
  LET vs == SelectSeq(visited, LAMBDA v : v.loop = l) IN vs[Len(vs)]

\* C13: bot.dig is issued for a cell only if a hazard check of its
\* surroundings, made between the visit of the cell and the dig, reports them
\* safe (no mitigation exists in MiningModule, so an unsafe cell would have
\* to be skipped).
C13_HazardCheckBeforeDig ==
  [][\A l \in Loops :
       (loops[l].pc = "equip" /\ loops'[l].pc = "dig")
         => \/ lastVisitOf(l).safe
            \/ assessMiningSafety(loops[l].blockPos, world, FALSE)]_vars

\* A step in which the delay of loop l ends.
delayEnds(l) == loops[l].pc = "delay" /\ loops'[l] # loops[l]

\* C14: when bot.dig fails, the error stays inside mineBlock: isMining, the
\* queue and the cursor are as before and the loop waits at its await on
\* mineBlock, not ended; and a loop whose delay ends while isMining is set and
\* an entry is left goes on to the next entry of the queue, whether the cell
\* before it failed or not.
C14_DigFailureIsSkip ==
  [][ /\ lastOp' = "dig_fail"
          => /\ UNCHANGED <<isMining, miningQueue, world, ctl, visited>>
             /\ \A l \in Loops :
                  loops'[l] # loops[l]
                    => /\ loops[l].pc = "dig"
                       /\ loops'[l] = [loops[l] EXCEPT !.pc = "awaitMine"]
      /\ \A l \in Loops :
           (delayEnds(l) /\ isMining /\ loops[l].i + 1 < Len(miningQueue))
             => /\ Visits
                /\ visitingLoop = l
                /\ visitedCell = miningQueue[loops[l].i + 2]
                /\ loops'[l].i = loops[l].i + 1
                /\ isMining'
    ]_vars

\* The only loop at work is at its second cell while the first cell, whose
\* dig was issued, is still stone: that dig failed and the loop went on.
C14_Witness ==
  /\ loops[1].i = 1
  /\ inMineBlock(1)
  /\ loops[2].pc = "idle"
  /\ nWorld = 0
  /\ isMining
  /\ Len(miningQueue) = 2
  /\ world[miningQueue[1]] = "stone"
  /\ loops[1].blockPos = miningQueue[2]

\* C15: a mineRectangularArea call whose decomposition throws ends with the
\* error rethrown to its caller and isMining clear, so that the busy check
\* of a following call passes; it starts no loop, visits no cell, issues no
\* world action and leaves the queue as it was.
C15_DecompositionFailure ==
  [][lastOp' = "start_fail"
       => /\ ~isMining'
          /\ ~startBusy(isMining')
          /\ UNCHANGED <<miningQueue, loops, visited, world, queueReq,
                         builtQueue>>]_vars

\* A call failed at decomposition after an earlier call had run to its end,
\* and a further call can still be made.
C15_Witness ==
  /\ lastOp = "start_fail"
  /\ ~isMining
  /\ loops[1].pc = "done"
  /\ loops[2].pc = "idle"

\* C16: while the loop of the request that owns the queue is at work, the
\* queuedBlocks of getStatus is the number of queue entries the cursor has
\* not passed, and it is 0 once the excavation has completed.
C16_StatusIsRemaining ==
  /\ \A l \in Loops :
       (l = queueReq /\ loopSuspended(l) /\ isMining)
         => queuedBlocks = Len(miningQueue) - loops[l].i
  /\ ctl = "Completed" => queuedBlocks = 0

\* The closed box between the component-wise minimum and maximum of a and b.
boxOf(a, b) ==
  {c \in [x : Min2(a.x, b.x)..Max2(a.x, b.x),
          y : Min2(a.y, b.y)..Max2(a.y, b.y),
          z : Min2(a.z, b.z)..Max2(a.z, b.z)] : TRUE}

\* The corner pairs that span the box of a and b: each component of the
\* first corner is taken from a or from b, the second corner is opposite.
cornerPairs(a, b) ==
  {<<[x |-> IF px THEN a.x ELSE b.x, y |-> IF py THEN a.y ELSE b.y,
      z |-> IF pz THEN a.z ELSE b.z],
     [x |-> IF px THEN b.x ELSE a.x, y |-> IF py THEN b.y ELSE a.y,
      z |-> IF pz THEN b.z ELSE a.z]>> : px \in BOOLEAN, py \in BOOLEAN,
                                         pz \in BOOLEAN}

cellSet(list) == {list[k] : k \in 1..Len(list)}

\* C17: the list calculateMiningArea returns for (a, b) holds exactly the
\* cells of the closed box between the component-wise minimum and maximum of
\* a and b, each once, and every corner pair spanning the same box, (b, a)
\* among them, gives the same cell set, each cell once.
C17_CornerOrderIrrelevant ==
  lastOp = "area"
    => /\ cellSet(fnResult) = boxOf(fnArgs.startPos, fnArgs.endPos)
       /\ Len(fnResult) = Cardinality(boxOf(fnArgs.startPos, fnArgs.endPos))
       /\ \A cp \in cornerPairs(fnArgs.startPos, fnArgs.endPos) :
            /\ cellSet(calculateMiningArea(cp[1], cp[2])) = cellSet(fnResult)
            /\ Len(calculateMiningArea(cp[1], cp[2])) = Len(fnResult)

\* The corners are given in mixed order: the first is above the second in
\* x and below it in y and z.
C17_Witness ==
  /\ lastOp = "area"
  /\ fnArgs.startPos.x > fnArgs.endPos.x
  /\ fnArgs.startPos.y < fnArgs.endPos.y
  /\ fnArgs.startPos.z < fnArgs.endPos.z
  /\ Len(fnResult) >= 8

\* a comes before b in the order x, then y, then z.
lexLess(a, b) ==
  \/ a.x < b.x
  \/ a.x = b.x /\ a.y < b.y
  \/ a.x = b.x /\ a.y = b.y /\ a.z < b.z

\* C18: the list calculateMiningArea returns starts at the minimum corner,
\* ends at the maximum corner and ascends strictly in the order x, then y,
\* then z: consecutive cells differ by one step of z, or by one step of y
\* with z back at its minimum, or by one step of x with y and z back at
\* their minimum.
C18_EnumerationOrder ==
  lastOp = "area"
    => LET a == fnArgs.startPos
           b == fnArgs.endPos
           lo == [x |-> Min2(a.x, b.x), y |-> Min2(a.y, b.y), z |-> Min2(a.z, b.z)]
           hi == [x |-> Max2(a.x, b.x), y |-> Max2(a.y, b.y), z |-> Max2(a.z, b.z)]
       IN /\ Len(fnResult) >= 1
          /\ fnResult[1] = lo
          /\ fnResult[Len(fnResult)] = hi
          /\ \A k \in 1..(Len(fnResult) - 1) :
               LET c == fnResult[k]
                   d == fnResult[k + 1]
               IN /\ lexLess(c, d)
                  /\ \/ d = [c EXCEPT !.z = c.z + 1]
                     \/ c.z = hi.z /\ d = [c EXCEPT !.y = c.y + 1, !.z = lo.z]
                     \/ c.z = hi.z /\ c.y = hi.y
                          /\ d = [x |-> c.x + 1, y |-> lo.y, z |-> lo.z]

\* A box with more than one cell along every axis has been enumerated.
C18_Witness ==
  /\ lastOp = "area"
  /\ fnArgs.startPos.x # fnArgs.endPos.x
  /\ fnArgs.startPos.y # fnArgs.endPos.y
  /\ fnArgs.startPos.z # fnArgs.endPos.z
  /\ fnResult[2].z = fnResult[1].z + 1

\* A decomposition has been made.
decomposed == fnArgs.botPos # NoCell

\* A material the queue must not hold: no block, air, or an ignored one.
absentEmptyOrIgnored(m) == m = "none" \/ m = "air" \/ m \in ignoredBlocks

\* C19: the queue built by the decomposition holds exactly the cells of the
\* box whose material, as the world reports it at that time, is neither
\* absent nor air nor in the ignore list, each once.
C19_QueueIsFilteredBox ==
  decomposed
    => /\ cellSet(fnResult)
            = {c \in boxOf(fnArgs.startPos, fnArgs.endPos) :
                 ~absentEmptyOrIgnored(world[c])}
       /\ Len(fnResult) = Cardinality(cellSet(fnResult))

\* The box holds one bedrock cell among stone, and the queue all the others.
C19_Witness ==
  /\ decomposed
  /\ \E c \in boxOf(fnArgs.startPos, fnArgs.endPos) : world[c] = "bedrock"
  /\ Len(fnResult) = Cardinality(boxOf(fnArgs.startPos, fnArgs.endPos)) - 1
  /\ Len(fnResult) >= 3

\* The queue q is in the order of sortBlocksByDistance for an agent at p.
stableByDistance(q, p) ==
  /\ \A k \in 1..(Len(q) - 1) : dist2(q[k], p) <= dist2(q[k + 1], p)
  /\ \A j, k \in 1..Len(q) :
       (j < k /\ dist2(q[j], p) = dist2(q[k], p)) => lexLess(q[j], q[k])

\* C20: the queue is in non-decreasing distance from the position the agent
\* had at the decomposition, cells at equal distance are in the order x, then
\* y, then z, and a move of the agent leaves the queue as it is.
C20_StableDistanceOrder ==
  [][ /\ decomposed' => stableByDistance(fnResult', fnArgs'.botPos)
      /\ lastOp' = "move" => fnResult' = fnResult
    ]_vars

\* The queue holds cells at equal distance, and the agent has moved to a
\* position for which the queue is not in distance order.
C20_Witness ==
  /\ decomposed
  /\ botPos # fnArgs.botPos
  /\ \E j, k \in 1..Len(fnResult) :
       j < k /\ dist2(fnResult[j], fnArgs.botPos) = dist2(fnResult[k], fnArgs.botPos)
  /\ \E k \in 1..(Len(fnResult) - 1) :
       dist2(fnResult[k], botPos) > dist2(fnResult[k + 1], botPos)

\* The scenario of C21: the box (0,0,0)-(1,1,1), all of stone, has been
\* decomposed with the agent at (0,0,0).
unitCubeDecomposed ==
  /\ decomposed
  /\ fnArgs.startPos = P3(0, 0, 0)
  /\ fnArgs.endPos = P3(1, 1, 1)
  /\ fnArgs.botPos = P3(0, 0, 0)
  /\ \A c \in boxOf(fnArgs.startPos, fnArgs.endPos) : world[c] = "stone"

\* C21 as stated: in the scenario the queue has length 8, starts with
\* (0,0,0), and the distance from the agent increases strictly along it.
C21_StrictlyIncreasing ==
  unitCubeDecomposed
    => /\ Len(fnResult) = 8
       /\ fnResult[1] = P3(0, 0, 0)
       /\ \A k \in 1..(Len(fnResult) - 1) :
            dist2(fnResult[k], fnArgs.botPos) < dist2(fnResult[k + 1], fnArgs.botPos)

\* C21 as amended: in the scenario the queue has length 8, starts with
\* (0,0,0), and the distance from the agent never decreases along it; the
\* three cells at distance 1 and the three at distance sqrt(2) are each in
\* the order of the enumeration.
C21_NonDecreasing ==
  unitCubeDecomposed
    => /\ Len(fnResult) = 8
       /\ fnResult[1] = P3(0, 0, 0)
       /\ \A k \in 1..(Len(fnResult) - 1) :
            dist2(fnResult[k], fnArgs.botPos) <= dist2(fnResult[k + 1], fnArgs.botPos)
       /\ fnResult = <<P3(0, 0, 0), P3(0, 0, 1), P3(0, 1, 0), P3(1, 0, 0),
                       P3(0, 1, 1), P3(1, 0, 1), P3(1, 1, 0), P3(1, 1, 1)>>

C21_Witness == unitCubeDecomposed /\ lastOp = "queue" /\ Len(fnResult) = 8

\* The cube of side 2 * radius + 1 around a center.
cubeAround(center, radius) ==
  [x : (center.x - radius)..(center.x + radius),
   y : (center.y - radius)..(center.y + radius),
   z : (center.z - radius)..(center.z + radius)]

\* The cells of the loaded world that hold a hazardous liquid.
lavaCells == {c \in DOMAIN world : world[c] \in {"lava", "flowing_lava"}}

\* The entities that are mobs of a hostile type, as positions.
hostileEntities ==
  {k \in 1..Len(entities) :
     entities[k].type = "mob" /\ entities[k].name \in hostileTypes}

\* C22: the lava set of the report is exactly the set of cells of the cube
\* that hold lava, and isSafe is false exactly when that set is not empty or
\* a hostile entity is known; with the center (0,0,0), radius 1 and lava at
\* (1,0,0) only, isSafe is false and the lava set is {(1,0,0)}.
C22_ScanReport ==
  lastOp = "scan"
    => /\ fnResult.lava = lavaCells \cap cubeAround(fnArgs.position, fnArgs.radius)
       /\ fnResult.isSafe = (fnResult.lava = {} /\ hostileEntities = {})
       /\ ( /\ fnArgs.position = P3(0, 0, 0)
            /\ fnArgs.radius = 1
            /\ lavaCells = {P3(1, 0, 0)} )
          => (fnResult.isSafe = FALSE /\ fnResult.lava = {P3(1, 0, 0)})

\* The scenario of C22 has been scanned with no entity around.
C22_Witness ==
  /\ lastOp = "scan"
  /\ fnArgs.position = P3(0, 0, 0)
  /\ fnArgs.radius = 1
  /\ lavaCells = {P3(1, 0, 0)}
  /\ entities = <<>>
  /\ fnResult.isSafe = FALSE

\* C23: every hostile entity of the report is located in the scanned cube,
\* and isSafe is false only if the cube holds lava or a hostile entity.
C23_HostilesWithinCube ==
  lastOp = "scan"
    => /\ \A k \in 1..Len(fnResult.mobs) :
            fnResult.mobs[k].position \in cubeAround(fnArgs.position, fnArgs.radius)
       /\ fnResult.isSafe = FALSE
            => \/ fnResult.lava # {}
               \/ \E k \in hostileEntities :
                    entities[k].position \in cubeAround(fnArgs.position, fnArgs.radius)

\* The entities detectNearbyMobs classifies: the mobs.
livingEntities == {k \in 1..Len(entities) : entities[k].type = "mob"}

\* C24: every mob is in exactly one list, the hostile list holds the mobs of
\* a hostile type and the peaceful list the others, in the order of the
\* entities; threatLevel is "high" exactly when the hostile list is not
\* empty; one hostile and one peaceful mob give "high" and two lists of
\* length 1.
C24_MobPartition ==
  lastOp = "mobs"
    => /\ Len(fnResult.hostile) = Cardinality(hostileEntities)
       /\ Len(fnResult.hostile) + Len(fnResult.peaceful)
            = Cardinality(livingEntities)
       /\ \A k \in 1..Len(fnResult.hostile) :
            fnResult.hostile[k].name \in hostileTypes
       /\ \A k \in 1..Len(fnResult.peaceful) :
            fnResult.peaceful[k].name \notin hostileTypes
       /\ fnResult.threatLevel = IF Len(fnResult.hostile) > 0 THEN "high" ELSE "low"
       /\ fnResult.threatLevel \in {"high", "low"}
       /\ (hostileEntities # {}) = (fnResult.threatLevel = "high")
       /\ ( /\ Len(entities) = 2
            /\ Cardinality(hostileEntities) = 1
            /\ Cardinality(livingEntities) = 2 )
          => /\ fnResult.threatLevel = "high"
             /\ Len(fnResult.hostile) = 1
             /\ Len(fnResult.peaceful) = 1

\* One hostile mob far from the agent and one peaceful mob have been
\* classified.
C24_Witness ==
  /\ lastOp = "mobs"
  /\ Len(entities) = 2
  /\ Cardinality(hostileEntities) = 1
  /\ Cardinality(livingEntities) = 2
  /\ \A k \in hostileEntities :
       dist2(entities[k].position, botPos) > SafeDistance * SafeDistance
  /\ fnResult.threatLevel = "high"

\* C25: emergencyEscape never throws: it returns true when the movement
\* completes and false when the position cannot be read, when the movement
\* cannot be started and when the movement fails.
C25_EscapeNeverThrows ==
  /\ escape.pc # "threw"
  /\ escape.pc = "returned" => escape.result \in {"true", "false"}
  /\ lastOp \in {"escape_failed", "escape_rejected"}
       => (escape.pc = "returned" /\ escape.result = "false")
  /\ lastOp = "escape_resolved"
       => (escape.pc = "returned" /\ escape.result = "true")

\* The call failed at reading the agent's position and returned false.
C25_Witness ==
  /\ lastOp = "escape_failed"
  /\ escape.target = NoCell
  /\ escape.pc = "returned"
  /\ escape.result = "false"

\* A step in which goTo call n is made.
navStarts(n) == navLoops[n].pc = "idle" /\ navLoops'[n].pc # "idle"

\* A step in which goTo call n goes on after a timer has fired.
navWakes(n) ==
  /\ navSuspended(n)
  /\ navLoops[n].sleep = 0
  /\ (navLoops'[n].sleep > 0 \/ navLoops'[n].pc = "done")

\* A step in which goTo call n returns.
navReturns(n) == navLoops[n].pc # "done" /\ navLoops'[n].pc = "done"

\* C26 as stated: a goTo whose target is the agent's position, with the
\* default tolerance and whatever timeout, returns true within the call,
\* with no setControlState and no look call.
C26_AtTargetAnyTimeout ==
  [][\A n \in NavLoops :
       (navStarts(n) /\ navLoops'[n].target = botPos)
         => /\ navLoops'[n].pc = "done"
            /\ navLoops'[n].result = "true"
            /\ ~navLoops'[n].acted
            /\ controlState' = controlState]_vars

\* C26 as amended: a goTo whose target is the agent's position, with the
\* default tolerance and a timeout above zero, returns true within the
\* call, with no setControlState and no look call; with a timeout of zero
\* it returns false, with no such call either.
C26_AtTargetPositiveTimeout ==
  [][\A n \in NavLoops :
       (navStarts(n) /\ navLoops'[n].target = botPos)
         => /\ navLoops'[n].pc = "done"
            /\ navLoops'[n].result
                 = IF navLoops'[n].timeout > 0 THEN "true" ELSE "false"
            /\ ~navLoops'[n].acted
            /\ controlState' = controlState]_vars

\* A goTo with a timeout above zero has returned true with no time passed
\* and no movement call made.
C26_Witness ==
  \E n \in NavLoops :
    /\ navLoops[n].pc = "done"
    /\ navLoops[n].result = "true"
    /\ navLoops[n].timeout > 0
    /\ navLoops[n].elapsed = 0
    /\ ~navLoops[n].acted
    /\ navLoops[n].target = botPos

\* C27: every goTo call returns; it returns false only when the elapsed
\* time has reached the timeout, and true only if the agent is within
\* tolerance at that iteration; when a timer fires with the timeout
\* reached, the call returns false at the loop condition that follows the
\* iteration under way.
C27_GoToTerminates ==
  /\ \A n \in NavLoops : navSuspended(n) ~> (navLoops[n].pc = "done")
  /\ [][\A n \in NavLoops :
          /\ navReturns(n) =>
               IF navLoops'[n].result = "false"
               THEN navLoops'[n].elapsed >= navLoops'[n].timeout
               ELSE /\ navLoops'[n].result = "true"
                    /\ withinTolerance(botPos, navLoops'[n].target,
                                       navLoops'[n].tolerance)
          /\ ( /\ navWakes(n)
               /\ navLoops[n].pc = "loopSleep"
               /\ navLoops[n].elapsed >= navLoops[n].timeout )
             => (navReturns(n) /\ navLoops'[n].result = "false")
       ]_vars

\* A goTo has moved the agent's controls and has returned false at its
\* timeout.
C27_Witness ==
  \E n \in NavLoops :
    /\ navLoops[n].pc = "done"
    /\ navLoops[n].result = "false"
    /\ navLoops[n].acted
    /\ navLoops[n].timeout > 0
    /\ navLoops[n].elapsed = navLoops[n].timeout

\* C28: when a goTo returns false, with no other goTo call made on the
\* instance, no control state is set and the navigator is not navigating.
C28_TimeoutClearsControls ==
  [][\A n \in NavLoops :
       ( /\ navReturns(n)
         /\ navLoops'[n].result = "false"
         /\ \A m \in NavLoops \ {n} : navLoops[m].pc = "idle" )
         => (controlState' = {} /\ ~pathfindingActive')]_vars

\* C29: a goTo that was suspended when stop() ran returns at its next step
\* and sets no control state.
C29_StopEndsNavigation ==
  [][\A n \in NavLoops :
       (navLoops[n].stopped /\ navWakes(n))
         => (navReturns(n) /\ controlState' \subseteq controlState)]_vars

\* C30: at most one goTo call of the instance is under way.
C30_OneGoalAtATime ==
  Cardinality({n \in NavLoops : navSuspended(n)}) <= 1


\* The feasibility of an offset in the words of C31: both cells of the
\* agent's extent are not solid and the cell below is solid. The words do
\* not speak of cells that are not loaded; the feet cell has to be loaded,
\* as in the code.
feasibleOffset(col) ==
  /\ col.feet # "none"
  /\ ~isSolidBlock(col.feet)
  /\ ~isSolidBlock(col.head)
  /\ isSolidBlock(col.below)

\* The first of right, left, forward, back whose offset is feasible in
\* those words, "none" if there is none.
firstFeasible(cols) ==
  IF \E i \in 1..Len(avoidanceOrder) : feasibleOffset(cols[avoidanceOrder[i]])
  THEN avoidanceOrder[CHOOSE j \in 1..Len(avoidanceOrder) :
         /\ feasibleOffset(cols[avoidanceOrder[j]])
         /\ \A k \in 1..(j - 1) : ~feasibleOffset(cols[avoidanceOrder[k]])]
  ELSE "none"

\* goTo call n has made the obstacle check of its first iteration, with an
\* obstacle ahead, and is at the await that follows.
obstacleChecked(n) ==
  /\ fnArgs.ahead
  /\ navSuspended(n)
  /\ navLoops[n].elapsed = 0

\* C31: with an obstacle ahead, the call moves in the first of right, left,
\* forward, back whose offset has both cells of the agent's extent not
\* solid and a solid cell below, and makes no avoidance move if there is
\* none.
C31_FirstFeasibleDirection ==
  \A n \in NavLoops :
    obstacleChecked(n) =>
      IF firstFeasible(fnArgs.cols) # "none"
      THEN /\ navLoops[n].pc = "obstacleSleep"
           /\ controlState = {firstFeasible(fnArgs.cols)}
      ELSE navLoops[n].pc # "obstacleSleep"

\* C32: whatever way equipBestTool goes for a cell that mineBlock has found
\* neither empty nor ignored (no tool for the block, tool not held, equip
\* done, equip failed), bot.dig is issued for that cell when it settles.
C32_DigDespiteEquipFailure ==
  [][\A l \in Loops :
       (loops[l].pc = "equip" /\ loops'[l] # loops[l])
         => /\ loops'[l].pc = "dig"
            /\ loops'[l].blockPos = loops[l].blockPos
            /\ lastOp' \in EquipOutcomes]_vars

\* bot.equip has failed and bot.dig is under way for the cell.
C32_Witness ==
  /\ lastOp = "equip_failed"
  /\ \E l \in Loops :
       /\ loops[l].pc = "dig"
       /\ isMineable(world[loops[l].blockPos])

\* The number of cells loop l has handed to mineBlock since its request
\* started it, the skipped ones included.
visitsOfLoop(l) ==
  Cardinality({k \in 1..Len(visited) : visited[k].loop = l})

\* A step in which the await of loop l on mineBlock resumes.
mineReturns(l) == loops[l].pc = "awaitMine" /\ loops'[l].pc = "delay"

\* C33: a progress message is issued after a cell exactly when the number
\* of cells the loop has visited since its request started it, the skipped
\* ones included, is a multiple of ProgressEvery; the message carries that
\* number, and no other step issues one.
C33_ProgressEveryTen ==
  [][/\ \A l \in Loops :
          mineReturns(l) =>
            IF visitsOfLoop(l) % ProgressEvery = 0
            THEN /\ Len(reports') = Len(reports) + 1
                 /\ reports'[Len(reports')].loop = l
                 /\ reports'[Len(reports')].mined = visitsOfLoop(l)
            ELSE reports' = reports
     /\ (reports' # reports) => \E l \in Loops : mineReturns(l)]_vars

\* The loop that outlived a stop() and the loop of the next request have
\* each reported at their tenth cell, the second over cells the first had
\* dug already.
C33_Witness ==
  /\ Len(reports) = 2
  /\ reports[1].loop # reports[2].loop
  /\ \A k \in 1..2 : /\ reports[k].mined = ProgressEvery
                     /\ visitsOfLoop(reports[k].loop) >= ProgressEvery
  /\ \A c \in LineCoord : world[c] = "air"

\* C34: whenever isMining is true, a loop of the controller is suspended at
\* one of its awaits.
C34_MiningHasLoop ==
  isMining => \E l \in Loops : loopSuspended(l)

\* Loop l has left its for loop: it has logged the completion message and
\* cleared isMining.
completionReported(l) == loops[l].pc = "done"

\* C35: a loop that has logged the completion message has moved its cursor
\* past every entry of the queue its request built.
C35_CompletionAfterWholeQueue ==
  \A l \in Loops :
    completionReported(l) => loops[l].i >= Len(builtQueue[l])

====
